---- MODULE Spec2Model ----
(***************************************************************************)
(* Model of packages/react-ui/scripts/generate-favicons.py: one process    *)
(* that rasterizes favicon.svg into nine PNG files and packs three of them *)
(* into favicon.ico.  The state is the filesystem seen by the script, the  *)
(* position of the script, its standard output and its exit status.        *)
(***************************************************************************)
EXTENDS Integers, Sequences, FiniteSets, TLC

\* ------------------------------------------------------------------ bounds
\* Number of successive invocations of the script.
MaxRuns == 2
\* Largest number of output files already on disk before the first run.
MaxStale == 2

\* ------------------------------------------------------------ fixed tables
\* PNG_SIZES, in insertion order (a dict iterates in insertion order).
PNG_SIZES ==
    << [name |-> "favicon-16x16.png",          size |-> 16],
       [name |-> "favicon-32x32.png",          size |-> 32],
       [name |-> "favicon-48x48.png",          size |-> 48],
       [name |-> "favicon-64x64.png",          size |-> 64],
       [name |-> "favicon-96x96.png",          size |-> 96],
       [name |-> "favicon-128x128.png",        size |-> 128],
       [name |-> "apple-touch-icon.png",       size |-> 180],
       [name |-> "android-chrome-192x192.png", size |-> 192],
       [name |-> "android-chrome-512x512.png", size |-> 512] >>

\* SVG_PATH and the name create_ico writes, both relative to FAVICON_DIR.
SVG_PATH == "favicon.svg"
\* Variant of ico_path: the ICO is saved under the name of the source.
ico_path_on_source == "favicon.svg"
ico_path == "favicon.ico"
\* A file of FAVICON_DIR the script never names.
OtherFile == "site.webmanifest"

PngNames    == {PNG_SIZES[i].name : i \in 1..Len(PNG_SIZES)}
OutputNames == PngNames \cup {ico_path}
Files       == OutputNames \cup {SVG_PATH, OtherFile}

\* for size in [16, 32, 48]
IcoSizes == <<16, 32, 48>>
\* sizes=[(16, 16), (32, 32), (48, 48)]
IcoHints == << <<16, 16>>, <<32, 32>>, <<48, 48>> >>

\* png_name = f"favicon-{size}x{size}.png"
png_name(size) ==
    CASE size = 16 -> "favicon-16x16.png"
      [] size = 32 -> "favicon-32x32.png"
      [] size = 48 -> "favicon-48x48.png"

\* ---------------------------------------------------------- file contents
SvgContents == {"svgA", "svgB"}

Image(src, w, h, via) == [src |-> src, w |-> w, h |-> h, via |-> via]

Absent        == [kind |-> "absent",  data |-> <<>>]
Partial       == [kind |-> "partial", data |-> <<>>]
OtherContent  == [kind |-> "other",   data |-> <<>>]
SvgFile(id)   == [kind |-> "svg", data |-> <<Image(id, 0, 0, "source")>>]
PngFile(img)  == [kind |-> "png", data |-> <<img>>]
IcoFile(imgs) == [kind |-> "ico", data |-> imgs]

SizeOf(name) ==
    LET i == CHOOSE j \in 1..Len(PNG_SIZES) : PNG_SIZES[j].name = name
    IN  PNG_SIZES[i].size

\* What an earlier generation from another artwork left under an output name.
StaleContent(name) ==
    IF name = ico_path
    THEN IcoFile(<<Image("old", 16, 16, "svg2png")>>)
    ELSE PngFile(Image("old", SizeOf(name), SizeOf(name), "svg2png"))

exists(f, name) == f[name].kind # "absent"

VARIABLES
    libs,       \* cairosvg and PIL are importable in this environment
    dirExists,  \* FAVICON_DIR exists
    fs,         \* content of every file of FAVICON_DIR
    pc,         \* position of the script
    idx,        \* position of the loop over PNG_SIZES
    exitCode,   \* exit status, meaningful when pc = "exit"
    out,        \* standard output of the current run
    ops,        \* filesystem and library calls of the current run, in order
    written,    \* files created or overwritten by the current run
    icoCall,    \* arguments of images[0].save(...) in the current run
    failure,    \* the library call that raised in the current run, if any
    run,        \* number of the current invocation
    fs0,        \* filesystem when the current run started
    dir0,       \* dirExists when the current run started
    prev        \* exit status and filesystem at the end of the previous run

vars == <<libs, dirExists, fs, pc, idx, exitCode, out, ops, written, icoCall,
          failure, run, fs0, dir0, prev>>

Msg(m, a)     == [msg |-> m, arg |-> a]
Op(o, f, w, h) == [op |-> o, file |-> f, w |-> w, h |-> h]
NoIcoCall     == [saved |-> FALSE, images |-> <<>>, append |-> <<>>, sizes |-> <<>>]
NoPrev        == [code |-> -1, fs |-> [n \in Files |-> Absent]]

\* ------------------------------------------------------------------- Init
StaleSets == {S \in SUBSET OutputNames : Cardinality(S) <= MaxStale}

InitFs(svg, other, stale) ==
    [n \in Files |->
        IF n = SVG_PATH THEN svg
        ELSE IF n = OtherFile THEN other
        ELSE IF n \in stale THEN StaleContent(n)
        ELSE Absent]

Init ==
    /\ libs \in BOOLEAN
    /\ dirExists \in BOOLEAN
    /\ \E svg \in {Absent} \cup {SvgFile(c) : c \in SvgContents},
          other \in {Absent, OtherContent},
          stale \in StaleSets :
            fs = IF dirExists THEN InitFs(svg, other, stale)
                 ELSE [n \in Files |-> Absent]
    /\ pc = "import"
    /\ idx = 1
    /\ exitCode = 0
    /\ out = <<>>
    /\ ops = <<>>
    /\ written = {}
    /\ icoCall = NoIcoCall
    /\ failure = "none"
    /\ run = 1
    /\ fs0 = fs
    /\ dir0 = dirExists
    /\ prev = NoPrev

\* ---------------------------------------------------------------- actions
\* Variant of ImportLibs: the except branch prints the guidance but does not
\* exit, so the module body goes on.
ImportLibsNoExit ==
    /\ pc = "import"
    /\ out' = IF libs THEN out ELSE out \o <<Msg("install_guidance", "")>>
    /\ pc' = "mkdir"
    /\ UNCHANGED <<libs, dirExists, fs, idx, exitCode, ops, written, icoCall,
                   failure, run, fs0, dir0, prev>>

\* try: import cairosvg; from PIL import Image / except ImportError: exit(1)
ImportLibs ==
    /\ pc = "import"
    /\ IF libs
       THEN /\ pc' = "mkdir"
            /\ UNCHANGED <<out, exitCode>>
       ELSE /\ out' = out \o <<Msg("install_guidance", "")>>
            /\ exitCode' = 1
            /\ pc' = "exit"
    /\ UNCHANGED <<libs, dirExists, fs, idx, ops, written, icoCall, failure, run,
                   fs0, dir0, prev>>

\* FAVICON_DIR.mkdir(parents=True, exist_ok=True), at module level
MkDir ==
    /\ pc = "mkdir"
    /\ dirExists' = TRUE
    /\ ops' = Append(ops, Op("mkdir", "", 0, 0))
    /\ pc' = "check_svg"
    /\ UNCHANGED <<libs, fs, idx, exitCode, out, written, icoCall, failure, run,
                   fs0, dir0, prev>>

\* Variant of CheckSvg: the error is printed but sys.exit(1) is missing.
CheckSvgNoExit ==
    /\ pc = "check_svg"
    /\ ops' = Append(ops, Op("exists", SVG_PATH, 0, 0))
    /\ out' = IF exists(fs, SVG_PATH)
              THEN out \o <<Msg("using_svg", SVG_PATH), Msg("output_dir", "")>>
              ELSE out \o <<Msg("svg_not_found", SVG_PATH)>>
    /\ idx' = 1
    /\ pc' = "png"
    /\ UNCHANGED <<libs, dirExists, fs, exitCode, written, icoCall, failure, run,
                   fs0, dir0, prev>>

\* main: if not SVG_PATH.exists(): print error; sys.exit(1)
CheckSvg ==
    /\ pc = "check_svg"
    /\ ops' = Append(ops, Op("exists", SVG_PATH, 0, 0))
    /\ IF exists(fs, SVG_PATH)
       THEN /\ out' = out \o <<Msg("using_svg", SVG_PATH), Msg("output_dir", "")>>
            /\ idx' = 1
            /\ pc' = "png"
            /\ UNCHANGED exitCode
       ELSE /\ out' = out \o <<Msg("svg_not_found", SVG_PATH)>>
            /\ exitCode' = 1
            /\ pc' = "exit"
            /\ UNCHANGED idx
    /\ UNCHANGED <<libs, dirExists, fs, written, icoCall, failure, run, fs0, dir0,
                   prev>>

\* Variant of svg2png_args: output_height is not passed.
svg2png_args_no_height(size) == [w |-> size, h |-> 0]

\* cairosvg.svg2png(..., output_width=size, output_height=size)
svg2png_args(size) == [w |-> size, h |-> size]

\* The raster cairosvg produces: determined by the SVG content and the
\* requested width and height.
Raster(svg, args) == Image(svg.data[1].src, args.w, args.h, "svg2png")

\* Variant of WriteFile: the file is opened for appending.
WriteFileAppend(f, name, content) ==
    [f EXCEPT ![name] = [kind |-> content.kind, data |-> f[name].data \o content.data]]

\* write_to=str(png_path) / images[0].save(ico_path, ...): the file is
\* created or replaced.
WriteFile(f, name, content) == [f EXCEPT ![name] = content]

\* for filename, size in PNG_SIZES.items(): svg_to_png(SVG_PATH, png_path, size)
\* One iteration in which cairosvg.svg2png returns normally.
SvgToPng ==
    /\ pc = "png"
    /\ exists(fs, SVG_PATH)
    /\ fs[SVG_PATH].kind = "svg"
    /\ LET filename == PNG_SIZES[idx].name
           size     == PNG_SIZES[idx].size
           args     == svg2png_args(size)
       IN  /\ out' = Append(out, Msg("generating_png", filename))
           /\ ops' = Append(ops, Op("svg2png", filename, args.w, args.h))
           /\ fs' = WriteFile(fs, filename, PngFile(Raster(fs[SVG_PATH], args)))
           /\ written' = written \cup {filename}
    /\ IF idx < Len(PNG_SIZES)
       THEN idx' = idx + 1 /\ pc' = "png"
       ELSE idx' = idx /\ pc' = "ico"
    /\ UNCHANGED <<libs, dirExists, exitCode, icoCall, failure, run, fs0, dir0,
                   prev>>

\* Variant of SvgToPngFail: the exception is caught and the loop continues.
SvgToPngFailSwallowed ==
    /\ pc = "png"
    /\ LET filename == PNG_SIZES[idx].name
           args     == svg2png_args(PNG_SIZES[idx].size)
       IN  /\ out' = Append(out, Msg("generating_png", filename))
           /\ ops' = Append(ops, Op("svg2png", filename, args.w, args.h))
           /\ \/ /\ exists(fs, SVG_PATH)
                 /\ fs' = WriteFile(fs, filename, Partial)
                 /\ written' = written \cup {filename}
              \/ UNCHANGED <<fs, written>>
    /\ failure' = "svg2png"
    /\ IF idx < Len(PNG_SIZES)
       THEN idx' = idx + 1 /\ pc' = "png"
       ELSE idx' = idx /\ pc' = "ico"
    /\ UNCHANGED <<libs, dirExists, exitCode, icoCall, run, fs0, dir0, prev>>

\* One iteration in which cairosvg.svg2png raises: the exception is not
\* caught, the interpreter prints a traceback and exits with status 1.  The
\* target file is either untouched or left with incomplete content.
SvgToPngFail ==
    /\ pc = "png"
    /\ LET filename == PNG_SIZES[idx].name
           size     == PNG_SIZES[idx].size
           args     == svg2png_args(size)
       IN  /\ out' = Append(out, Msg("generating_png", filename))
           /\ ops' = Append(ops, Op("svg2png", filename, args.w, args.h))
           /\ \/ /\ exists(fs, SVG_PATH)
                 /\ fs' = WriteFile(fs, filename, Partial)
                 /\ written' = written \cup {filename}
              \/ UNCHANGED <<fs, written>>
    /\ failure' = "svg2png"
    /\ exitCode' = 1
    /\ pc' = "exit"
    /\ UNCHANGED <<libs, dirExists, idx, icoCall, run, fs0, dir0, prev>>

\* create_ico: for size in [16, 32, 48]: if png_path.exists(): images.append(
\* Image.open(png_path)).  The sizes whose PNG exists, in list order.
IcoPresent(f) == SelectSeq(IcoSizes, LAMBDA s : exists(f, png_name(s)))

\* The images list create_ico builds.
IcoImages(f) ==
    LET present == IcoPresent(f)
    IN  [i \in 1..Len(present) |-> f[png_name(present[i])].data[1]]

\* Pillow's ICO encoder (Image.save with format='ICO'): a requested size larger
\* than the base image is dropped; for a kept size the provided image of
\* exactly that size is the frame, else the base image scaled down to it.
RECURSIVE IcoFrames(_, _, _)
IcoFrames(base, provided, hints) ==
    IF hints = <<>> THEN <<>>
    ELSE LET size  == Head(hints)
             rest  == IcoFrames(base, provided, Tail(hints))
             match == SelectSeq(provided, LAMBDA im : im.w = size[1] /\ im.h = size[2])
         IN  IF size[1] > base.w \/ size[2] > base.h
                \/ size[1] > 256 \/ size[2] > 256
             THEN rest
             ELSE IF match # <<>>
                  THEN <<Head(match)>> \o rest
                  ELSE <<Image(base.src, size[1], size[2], "thumbnail")>> \o rest

\* Variant of IcoSaveArgs: the size hints are those of the loaded images.
IcoSaveArgsLoadedSizes(images) ==
    [saved |-> TRUE, images |-> images, append |-> Tail(images),
     sizes |-> [i \in 1..Len(images) |-> <<images[i].w, images[i].h>>]]

\* images[0].save(ico_path, format='ICO', sizes=[...], append_images=images[1:])
IcoSaveArgs(images) ==
    [saved |-> TRUE, images |-> images, append |-> Tail(images), sizes |-> IcoHints]

\* if png_path.exists(): one probe per size of the list.
IcoProbes == [i \in 1..Len(IcoSizes) |-> Op("exists", png_name(IcoSizes[i]), 0, 0)]

\* if images: images[0].save(...); print(f"Created {ico_path.name}")
IcoSave(images) ==
    LET call == IcoSaveArgs(images)
    IN  /\ icoCall' = call
        /\ fs' = WriteFile(fs, ico_path,
                    IcoFile(IcoFrames(call.images[1],
                                      <<call.images[1]>> \o call.append,
                                      call.sizes)))
        /\ written' = written \cup {ico_path}
        /\ ops' = ops \o IcoProbes \o <<Op("save_ico", ico_path, 0, 0)>>
        /\ out' = out \o <<Msg("generating_ico", ""), Msg("created_ico", ico_path)>>
        /\ pc' = "summary"
        /\ UNCHANGED <<exitCode, failure>>

\* Variant of IcoSkip: the empty list is treated as an error.
IcoSkipRaises ==
    /\ ops' = ops \o IcoProbes
    /\ out' = Append(out, Msg("generating_ico", ""))
    /\ failure' = "ico"
    /\ exitCode' = 1
    /\ pc' = "exit"
    /\ UNCHANGED <<fs, written, icoCall>>

\* else: print("Warning: Could not create ICO file - missing required PNG
\* sizes"); create_ico returns None.
IcoSkip ==
    /\ ops' = ops \o IcoProbes
    /\ out' = out \o <<Msg("generating_ico", ""), Msg("warn_missing_png", "")>>
    /\ pc' = "summary"
    /\ UNCHANGED <<fs, written, icoCall, exitCode, failure>>

\* create_ico(PNG_SIZES), returning normally.
CreateIco ==
    /\ pc = "ico"
    /\ LET present == IcoPresent(fs)
       IN  \A i \in 1..Len(present) : fs[png_name(present[i])].kind = "png"
    /\ IF IcoImages(fs) # <<>>
       THEN IcoSave(IcoImages(fs))
       ELSE IcoSkip
    /\ UNCHANGED <<libs, dirExists, idx, run, fs0, dir0, prev>>

\* create_ico in which Image.open or Image.save raises: uncaught, exit
\* status 1; favicon.ico is untouched or left with incomplete content.
CreateIcoFail ==
    /\ pc = "ico"
    /\ IcoPresent(fs) # <<>>
    /\ ops' = ops \o IcoProbes
    /\ out' = Append(out, Msg("generating_ico", ""))
    /\ \/ /\ fs' = WriteFile(fs, ico_path, Partial)
          /\ written' = written \cup {ico_path}
       \/ UNCHANGED <<fs, written>>
    /\ failure' = "ico"
    /\ exitCode' = 1
    /\ pc' = "exit"
    /\ UNCHANGED <<libs, dirExists, idx, icoCall, run, fs0, dir0, prev>>

\* print("Favicon generation complete!"); print(f"Files created in: ...")
Summary ==
    /\ pc = "summary"
    /\ out' = out \o <<Msg("complete", ""), Msg("files_created_in", "")>>
    /\ exitCode' = 0
    /\ pc' = "exit"
    /\ UNCHANGED <<libs, dirExists, fs, idx, ops, written, icoCall, failure, run,
                   fs0, dir0, prev>>

\* The script is invoked again (if __name__ == "__main__": main()).
NextRun ==
    /\ pc = "exit"
    /\ run < MaxRuns
    /\ run' = run + 1
    /\ prev' = [code |-> exitCode, fs |-> fs]
    /\ fs0' = fs
    /\ dir0' = dirExists
    /\ pc' = "import"
    /\ idx' = 1
    /\ exitCode' = 0
    /\ out' = <<>>
    /\ ops' = <<>>
    /\ written' = {}
    /\ icoCall' = NoIcoCall
    /\ failure' = "none"
    /\ UNCHANGED <<libs, dirExists, fs>>

Next ==
    \/ ImportLibs
    \/ MkDir
    \/ CheckSvg
    \/ SvgToPng
    \/ SvgToPngFail
    \/ CreateIco
    \/ CreateIcoFail
    \/ Summary
    \/ NextRun

Spec == Init /\ [][Next]_vars

\* Another process removes one of the PNGs create_ico looks for after the
\* rasterization loop has ended and before create_ico looks for them.
EnvRemove ==
    /\ pc = "ico"
    /\ \E s \in {IcoSizes[i] : i \in 1..Len(IcoSizes)} :
          /\ exists(fs, png_name(s))
          /\ fs' = [fs EXCEPT ![png_name(s)] = Absent]
    /\ UNCHANGED <<libs, dirExists, pc, idx, exitCode, out, ops, written,
                   icoCall, failure, run, fs0, dir0, prev>>

NextEnv ==
    \/ Next
    \/ EnvRemove

SpecEnv == Init /\ [][NextEnv]_vars

\* ----------------------------------------------------------------- claims
\* The names and sizes the claims speak of, written out.
NinePngs ==
    {"favicon-16x16.png", "favicon-32x32.png", "favicon-48x48.png",
     "favicon-64x64.png", "favicon-96x96.png", "favicon-128x128.png",
     "apple-touch-icon.png", "android-chrome-192x192.png",
     "android-chrome-512x512.png"}

TenOutputs == NinePngs \cup {"favicon.ico"}

TableSize(n) ==
    CASE n = "favicon-16x16.png"          -> 16
      [] n = "favicon-32x32.png"          -> 32
      [] n = "favicon-48x48.png"          -> 48
      [] n = "favicon-64x64.png"          -> 64
      [] n = "favicon-96x96.png"          -> 96
      [] n = "favicon-128x128.png"        -> 128
      [] n = "apple-touch-icon.png"       -> 180
      [] n = "android-chrome-192x192.png" -> 192
      [] n = "android-chrome-512x512.png" -> 512

RasterCalls == {i \in DOMAIN ops : ops[i].op = "svg2png"}
Printed(m)  == \E i \in DOMAIN out : out[i].msg = m
Called(o)   == \E i \in DOMAIN ops : ops[i].op = o
ThreeNames  == {"favicon-16x16.png", "favicon-32x32.png", "favicon-48x48.png"}
PresentSizes(f) == SelectSeq(<<16, 32, 48>>, LAMBDA z : f[png_name(z)].kind # "absent")

\* C1: a run that starts with the libraries importable and the source SVG
\* present, and in which no library call raises, ends with exit status 0,
\* has written exactly the nine PNG names and favicon.ico, and has requested
\* each PNG once, at width = height = the size of the table for its name.
C1_ExactOutputs ==
    (pc = "exit" /\ libs /\ fs0["favicon.svg"].kind # "absent" /\ failure = "none") =>
        /\ exitCode = 0
        /\ written = TenOutputs
        /\ Cardinality(RasterCalls) = 9
        /\ {ops[i] : i \in RasterCalls} =
             {Op("svg2png", n, TableSize(n), TableSize(n)) : n \in NinePngs}
        /\ \A n \in NinePngs :
              /\ fs[n].kind = "png"
              /\ fs[n].data[1].w = TableSize(n)
              /\ fs[n].data[1].h = TableSize(n)

C1_Witness ==
    /\ pc = "exit" /\ exitCode = 0 /\ failure = "none"
    /\ written = TenOutputs
    /\ Cardinality(RasterCalls) = 9

\* C2: when the source SVG does not exist at the start of a run, no output
\* file is created or overwritten in any state of the run, the rasterization
\* and ICO steps are never entered, and the run exits with status 1.
C2_MissingSvg ==
    fs0["favicon.svg"].kind = "absent" =>
        /\ written = {}
        /\ \A n \in TenOutputs : fs[n] = fs0[n]
        /\ pc \notin {"png", "ico", "summary"}
        /\ ~Called("svg2png") /\ ~Called("save_ico")
        /\ pc = "exit" => exitCode = 1

C2_Witness ==
    /\ pc = "exit" /\ libs
    /\ fs0["favicon.svg"].kind = "absent"
    /\ Printed("svg_not_found")
    /\ fs["favicon.ico"].kind = "ico"

\* C3: when the libraries are not importable the run exits with status 1
\* before any filesystem operation: the directory is not created, the SVG
\* existence check is not made, no file is written.
C3_MissingLibs ==
    ~libs =>
        /\ pc \in {"import", "exit"}
        /\ ops = <<>>
        /\ dirExists = dir0
        /\ fs = fs0
        /\ written = {}
        /\ pc = "exit" => exitCode = 1 /\ Printed("install_guidance")

C3_Witness ==
    ~libs /\ pc = "exit" /\ exitCode = 1 /\ ~dir0 /\ ~dirExists

\* C4: the output directory is ensured only after the whole prerequisite
\* check (libraries, then source SVG) has passed; a run that exits because
\* the SVG is missing has not created the directory.
C4_DirAfterPrerequisites ==
    /\ \A i \in DOMAIN ops :
          ops[i].op = "mkdir" =>
             \E j \in 1..(i - 1) : ops[j] = Op("exists", "favicon.svg", 0, 0)
    /\ (pc = "exit" /\ Printed("svg_not_found")) =>
          (~Called("mkdir") /\ dirExists = dir0)

\* C5: when the rasterizer raises on entry k of the table the run is over
\* with a non-zero status; the PNGs of entries 1..k-1 are on disk as written
\* by this run, no PNG of a later entry and no favicon.ico is written, and
\* the completion summary is not printed.
C5_FailFast ==
    failure = "svg2png" =>
        LET k == idx
        IN  /\ pc = "exit"
            /\ exitCode # 0
            /\ Cardinality(RasterCalls) = k
            /\ \A j \in 1..(k - 1) :
                  /\ PNG_SIZES[j].name \in written
                  /\ fs[PNG_SIZES[j].name] =
                       PngFile(Image(fs["favicon.svg"].data[1].src,
                                     PNG_SIZES[j].size, PNG_SIZES[j].size, "svg2png"))
            /\ \A j \in (k + 1)..Len(PNG_SIZES) :
                  /\ PNG_SIZES[j].name \notin written
                  /\ fs[PNG_SIZES[j].name] = fs0[PNG_SIZES[j].name]
            /\ "favicon.ico" \notin written
            /\ fs["favicon.ico"] = fs0["favicon.ico"]
            /\ ~Called("save_ico")
            /\ ~Printed("complete")

C5_Witness ==
    /\ failure = "svg2png" /\ pc = "exit" /\ idx = 5
    /\ Cardinality(written \cap NinePngs) >= 4
    /\ fs0["favicon-16x16.png"].kind = "absent"
    /\ fs["favicon-16x16.png"].kind = "png"

\* C6: when create_ico returns and a non-empty set S of the 16, 32 and 48
\* pixel PNGs existed, favicon.ico is written; the images loaded are those
\* of S in ascending size, the first is the base image, the rest are the
\* appended frames, and the size hints are 16x16, 32x32, 48x48 whatever S is.
C6_PartialInputs ==
    [][ (pc = "ico" /\ pc' = "summary") =>
          LET S == PresentSizes(fs)
          IN  S # <<>> =>
                /\ "favicon.ico" \in written'
                /\ fs'["favicon.ico"].kind = "ico"
                /\ icoCall'.saved
                /\ icoCall'.images = [i \in 1..Len(S) |-> fs[png_name(S[i])].data[1]]
                /\ \A i \in 1..Len(S) : icoCall'.images[i].w = S[i]
                /\ icoCall'.append = Tail(icoCall'.images)
                /\ icoCall'.sizes = << <<16, 16>>, <<32, 32>>, <<48, 48>> >>
                /\ Printed("created_ico")' ]_vars

C6_Witness ==
    /\ pc = "summary"
    /\ icoCall.saved
    /\ Len(icoCall.images) = 2
    /\ icoCall.images[1].w = 16 /\ icoCall.images[2].w = 48
    /\ fs["favicon-32x32.png"].kind = "absent"
    /\ "favicon.ico" \in written

\* C7: when none of the three PNGs exists as create_ico runs, favicon.ico is
\* not written (one already there is left as it is), the warning is printed,
\* create_ico returns, and the run prints the summary and exits with status 0.
C7_NoInputs ==
    [][ /\ (pc = "ico" /\ PresentSizes(fs) = <<>> /\ pc' # "ico") =>
             /\ pc' = "summary"
             /\ fs' = fs
             /\ written' = written
             /\ ~icoCall'.saved
             /\ failure' = "none"
             /\ Printed("warn_missing_png")'
             /\ ~Called("save_ico")'
        /\ (pc = "summary" /\ pc' # "summary") =>
             /\ pc' = "exit"
             /\ exitCode' = 0
             /\ fs' = fs
             /\ Printed("complete")' ]_vars

C7_Witness ==
    /\ pc = "exit" /\ exitCode = 0
    /\ Printed("warn_missing_png") /\ Printed("complete")
    /\ fs0["favicon.ico"].kind = "ico"
    /\ fs["favicon.ico"] = fs0["favicon.ico"]
    /\ "favicon.ico" \notin written

\* C8: create_ico starts only after all nine entries are rasterized, so the
\* three PNGs written by this run exist when it reads them, the warning
\* branch is not taken, and favicon.ico is built from all three images and
\* has frames at 16x16, 32x32 and 48x48.
C8_AllThreeFrames ==
    /\ pc = "ico" =>
          /\ Cardinality(RasterCalls) = 9
          /\ \A n \in ThreeNames : n \in written /\ fs[n].kind = "png"
    /\ ~Printed("warn_missing_png")
    /\ (pc = "summary" \/ (pc = "exit" /\ exitCode = 0)) =>
          /\ icoCall.saved
          /\ Len(icoCall.images) = 3
          /\ fs["favicon.ico"].kind = "ico"
          /\ [i \in 1..Len(fs["favicon.ico"].data) |->
                <<fs["favicon.ico"].data[i].w, fs["favicon.ico"].data[i].h>>]
               = << <<16, 16>>, <<32, 32>>, <<48, 48>> >>

\* C9: when two successive runs on the same SVG both end with status 0, the
\* directory after the second is what it was after the first, and the
\* second run has overwritten all ten outputs.
C9_Idempotent ==
    (pc = "exit" /\ exitCode = 0 /\ prev.code = 0
        /\ fs["favicon.svg"] = prev.fs["favicon.svg"]) =>
        /\ fs = prev.fs
        /\ written = TenOutputs

C9_Witness ==
    /\ run = 2 /\ pc = "exit" /\ exitCode = 0 /\ prev.code = 0
    /\ fs = prev.fs
    /\ fs["android-chrome-512x512.png"].kind = "png"

\* C10: in every state of every run the source SVG and every file other than
\* the ten output names are as they were when the run started, and the run
\* creates or overwrites only files among the ten output names.
C10_Frame ==
    /\ fs["favicon.svg"] = fs0["favicon.svg"]
    /\ \A n \in DOMAIN fs : n \notin TenOutputs => fs[n] = fs0[n]
    /\ written \subseteq TenOutputs
    /\ \A i \in DOMAIN ops :
          ops[i].op \in {"svg2png", "save_ico"} => ops[i].file \in TenOutputs

C10_Witness ==
    /\ pc = "exit" /\ failure = "ico"
    /\ Cardinality(written) = 10
    /\ fs["site.webmanifest"].kind = "other"
    /\ fs["favicon.svg"].kind = "svg"

====
